---- MODULE Spec2Model ----
(***************************************************************************)
(* A model of parsers.py, a parser-combinator library.                     *)
(*                                                                         *)
(* A Python str is a sequence of one-character strings, so a character     *)
(* 'a' and the one-character text 'a' are the same value <<"a">>.  A       *)
(* parser (a Python closure) is a record naming the function that built    *)
(* it and the values the closure captured; call(parser, state, env) is     *)
(* the application parser(state), with env the current dict_.impl.  An     *)
(* application ends in one of four ways: it returns a State ("ok"), it     *)
(* raises ParseFail ("fail"), it raises another exception ("error"), or    *)
(* it does not end ("loop").                                               *)
(***************************************************************************)
EXTENDS Integers, Sequences, FiniteSets, TLC

VARIABLES
    impl,        \* dict_.impl, the implementation held by the FunctionWrapper
    grammar,     \* the parser that is applied
    input,       \* the text handed to the parser
    start,       \* the State the parser is applied to
    outcome,     \* how the application ended
    pc,          \* "built", "loop" (inside many's while loop), "done", or "hung"
                 \* (inside an application that never ends)
    loop_state   \* the local variable `state` of many's new_parser

vars == <<impl, grammar, input, start, outcome, pc, loop_state>>

(***************************************************************************)
(* Bounds of the model.                                                    *)
(***************************************************************************)
\* longest input enumerated over Alphabet
MaxLen == 3
\* applications of the repeated parser after which a many loop that is
\* evaluated in one step is reported as not ending; it exceeds the length
\* of every input of the model
MaxIter == 8
\* longest accumulated value for which the stepped many loop is followed
MaxValue == 8

(***************************************************************************)
(* Characters and the character classes of str.                            *)
(***************************************************************************)
Letters == {"a", "b", "x"}
Digits == {"0", "1", "2", "3", "4", "5", "6", "7", "8", "9"}
Spaces == {" ", "\t"}
Puncts == {",", "-", "+", "\"", "{", "}", ":"}
Chars == Letters \cup Digits \cup Spaces \cup Puncts

DigitValue == [c \in Digits |->
    CASE c = "0" -> 0 [] c = "1" -> 1 [] c = "2" -> 2 [] c = "3" -> 3
      [] c = "4" -> 4 [] c = "5" -> 5 [] c = "6" -> 6 [] c = "7" -> 7
      [] c = "8" -> 8 [] c = "9" -> 9]

isalpha(c) == c \in Letters
isdigit(c) == c \in Digits
isspace(c) == c \in Spaces

(***************************************************************************)
(* Values: the fragments a parse accumulates, tagged with their type.      *)
(***************************************************************************)
PyStr(s) == [t |-> "str", v |-> s]
PyInt(n) == [t |-> "int", v |-> n]
PyTuple(xs) == [t |-> "tuple", v |-> xs]
PyList(xs) == [t |-> "list", v |-> xs]

State(value, remaining) == [value |-> value, remaining |-> remaining]

Ok(state) == [tag |-> "ok", state |-> state]
ParseFail(state, expected) == [tag |-> "fail", state |-> state, expected |-> expected]
Raise(exc) == [tag |-> "error", exc |-> exc]
Diverge == [tag |-> "loop"]
NoOutcome == [tag |-> "none"]

\* the text of str(ParseFail)
ParseFail_str(failure) == "Expected " \o failure.expected

None == [op |-> "None"]

(***************************************************************************)
(* Helpers on sequences.                                                   *)
(***************************************************************************)
RECURSIVE Reverse(_)
Reverse(s) == IF s = <<>> THEN <<>> ELSE Append(Reverse(Tail(s)), Head(s))

\* sep.join(chars) for one-character strings, as a TLA+ string
RECURSIVE JoinNames(_, _)
JoinNames(sep, chars) ==
    IF chars = <<>> THEN ""
    ELSE IF Len(chars) = 1 THEN chars[1]
    ELSE chars[1] \o sep \o JoinNames(sep, Tail(chars))

RECURSIVE Concat(_)
Concat(strs) == IF strs = <<>> THEN <<>> ELSE Head(strs).v \o Concat(Tail(strs))

Drop(s, n) == SubSeq(s, n + 1, Len(s))
Take(s, n) == SubSeq(s, 1, n)
IsSuffix(r, s) == Len(r) <= Len(s) /\ Drop(s, Len(s) - Len(r)) = r

(***************************************************************************)
(* The coercions handed to coerce.                                         *)
(***************************************************************************)
\* ''.join(value): every element must be a str
join(value) ==
    IF \A i \in 1..Len(value) : value[i].t = "str"
    THEN [tag |-> "ok", v |-> PyStr(Concat(value))]
    ELSE Raise("TypeError")

RECURSIVE Strip(_)
Strip(s) ==
    IF s # <<>> /\ isspace(Head(s)) THEN Strip(Tail(s))
    ELSE IF s # <<>> /\ isspace(s[Len(s)]) THEN Strip(Take(s, Len(s) - 1))
    ELSE s

RECURSIVE Decimal(_)
Decimal(ds) == IF ds = <<>> THEN 0 ELSE 10 * Decimal(Take(ds, Len(ds) - 1)) + DigitValue[ds[Len(ds)]]

\* int(s) of a str: surrounding whitespace, an optional sign, decimal digits
int(s) ==
    LET body == Strip(s.v)
        signed == body # <<>> /\ Head(body) \in {"-", "+"}
        ds == IF signed THEN Tail(body) ELSE body
    IN  IF ds # <<>> /\ \A i \in 1..Len(ds) : isdigit(ds[i])
        THEN [tag |-> "ok", v |-> PyInt(IF signed /\ Head(body) = "-" THEN 0 - Decimal(ds) ELSE Decimal(ds))]
        ELSE Raise("ValueError")

\* coercion(value) for the coercions of text, as_int, as_tuple, as_list
coercion_call(coercion, value) ==
    CASE coercion = "join" -> join(value)
      [] coercion = "int_join" ->
            LET j == join(value) IN IF j.tag = "ok" THEN int(j.v) ELSE j
      [] coercion = "tuple" -> [tag |-> "ok", v |-> PyTuple(value)]
      [] coercion = "list" -> [tag |-> "ok", v |-> PyList(value)]

(***************************************************************************)
(* The constructors: what each function of the library returns.            *)
(***************************************************************************)
identity == [op |-> "identity"]
compose(functions) == [op |-> "compose", functions |-> functions]
char_satisfies(pred, name) == [op |-> "char_satisfies", pred |-> pred, name |-> name]
pure(x) == [op |-> "pure", x |-> x]
char(x) == char_satisfies({c \in Chars : c = x}, "character \"" \o x \o "\"")
any_char == char_satisfies({c \in Chars : TRUE}, "any character")
one_of(chars) ==
    char_satisfies({c \in Chars : \E i \in 1..Len(chars) : chars[i] = c},
                   "one of " \o JoinNames(",", chars))
none_of(chars) ==
    char_satisfies({c \in Chars : ~ \E i \in 1..Len(chars) : chars[i] = c},
                   "none of " \o JoinNames(",", chars))
sequence(parsers) == compose(Reverse(parsers))
many(parser) == [op |-> "many", parser |-> parser]
many1(parser) == sequence(<<parser, many(parser)>>)
choose(parsers) == [op |-> "choose", parsers |-> parsers]
maybe(parser) == choose(<<parser, identity>>)
eof == [op |-> "eof"]
coerce(coercion, parser) == [op |-> "coerce", coercion |-> coercion, parser |-> parser]
text(parser) == coerce("join", parser)
as_int(parser) == coerce("int_join", parser)
as_tuple(parser) == coerce("tuple", parser)
as_list(parser) == coerce("list", parser)
discard(parser) == [op |-> "discard", parser |-> parser]
letter == char_satisfies({c \in Chars : isalpha(c)}, "letter")
digit == char_satisfies({c \in Chars : isdigit(c)}, "digit")
word == text(many1(letter))
integer == as_int(sequence(<<choose(<<char("-"), char("+"), identity>>), many1(digit)>>))
whitespace == char_satisfies({c \in Chars : isspace(c)}, "whitespace")
token(parser) ==
    LET skip_ws == discard(many(whitespace))
    IN  sequence(<<skip_ws, parser, skip_ws>>)
between(left, right, middle) == token(sequence(<<discard(left), middle, discard(right)>>))
double_quoted(parser) == between(char("\""), char("\""), parser)
sep_by1(separator, parser) ==
    sequence(<<parser, many(sequence(<<discard(separator), parser>>))>>)
sep_by(separator, parser) == maybe(sep_by1(separator, parser))
string == double_quoted(text(many(none_of(<<"\"">>))))
key == string
dict_ == [op |-> "FunctionWrapper"]
value == choose(<<string, integer, dict_>>)
key_value == as_tuple(sequence(<<text(token(key)), discard(char(":")), token(value)>>))
dict_impl == as_list(between(char("{"), char("}"), sep_by(token(char(",")), key_value)))

(***************************************************************************)
(* The application of a parser to a State.                                 *)
(***************************************************************************)
\* Only({e : r \in {x}}) is LET r == x IN e with x evaluated once, also
\* where the value of a LET definition is computed again at each use
Only(S) == CHOOSE x \in S : TRUE

RECURSIVE call(_, _, _)
RECURSIVE compose_call(_, _, _)
RECURSIVE many_new_parser(_, _, _, _)
RECURSIVE choose_new_parser(_, _, _)

\* char_satisfies without the length test: remaining[0] of '' raises IndexError
char_satisfies_no_length_test(pred, name, state) ==
    IF Len(state.remaining) = 0 THEN Raise("IndexError")
    ELSE IF state.remaining[1] \in pred
    THEN Ok(State(state.value \o <<PyStr(<<state.remaining[1]>>)>>, Tail(state.remaining)))
    ELSE ParseFail(state, name)

\* char_satisfies that slices remaining[:-1], dropping the last character
char_satisfies_drops_last(pred, name, state) ==
    IF Len(state.remaining) > 0 /\ state.remaining[1] \in pred
    THEN Ok(State(state.value \o <<PyStr(<<state.remaining[1]>>)>>,
                  Take(state.remaining, Len(state.remaining) - 1)))
    ELSE ParseFail(state, name)

char_satisfies_parser(pred, name, state) ==
    IF Len(state.remaining) > 0 /\ state.remaining[1] \in pred
    THEN Ok(State(state.value \o <<PyStr(<<state.remaining[1]>>)>>, Tail(state.remaining)))
    ELSE ParseFail(state, name)

pure_parser(x, state) == Ok(State(state.value \o <<x>>, state.remaining))

\* a sequence that raises its failures again with the State it was applied to
compose_rewinds_failure(functions, x, env) ==
    IF functions = <<>> THEN Ok(x)
    ELSE LET inner == compose_call(Tail(functions), x, env)
             r == IF inner.tag = "ok" THEN call(Head(functions), inner.state, env) ELSE inner
         IN  IF r.tag = "fail" THEN ParseFail(x, r.expected) ELSE r

\* reduce(lambda f, g: lambda x: f(g(x)), functions, identity)(x)
compose_call(functions, x, env) ==
    IF functions = <<>> THEN Ok(x)
    ELSE Only({ IF inner.tag = "ok" THEN call(Head(functions), inner.state, env) ELSE inner :
                    inner \in {compose_call(Tail(functions), x, env)} })

\* many without the loop: at most one application
many_at_most_once(parser, state, env, fuel) ==
    LET r == call(parser, state, env)
    IN  IF r.tag = "ok" THEN r
        ELSE IF r.tag = "fail" THEN Ok(state)
        ELSE r

\* many that returns the State of the failure instead of its own
many_returns_failure_state(parser, state, env, fuel) ==
    LET r == call(parser, state, env)
    IN  IF r.tag = "ok"
        THEN IF fuel = 0 THEN Diverge ELSE many_new_parser(parser, r.state, env, fuel - 1)
        ELSE IF r.tag = "fail" THEN Ok(r.state)
        ELSE r

\* the while loop of many: fuel applications of parser may still succeed
many_new_parser(parser, state, env, fuel) ==
    Only({ IF r.tag = "ok"
           THEN IF fuel = 0 THEN Diverge ELSE many_new_parser(parser, r.state, env, fuel - 1)
           ELSE IF r.tag = "fail" THEN Ok(state)
           ELSE r : r \in {call(parser, state, env)} })

\* choose that hands the State of a failure to the next alternative
choose_threads_failure(parsers, state, env) ==
    IF parsers = <<>> THEN Raise("IndexError")
    ELSE IF Len(parsers) = 1 THEN call(parsers[1], state, env)
    ELSE LET r == call(Head(parsers), state, env)
         IN  IF r.tag = "fail" THEN choose_new_parser(Tail(parsers), r.state, env) ELSE r

choose_new_parser(parsers, state, env) ==
    IF parsers = <<>> THEN Raise("IndexError")
    ELSE IF Len(parsers) = 1 THEN call(parsers[1], state, env)
    ELSE Only({ IF r.tag = "fail" THEN choose_new_parser(Tail(parsers), state, env) ELSE r :
                    r \in {call(Head(parsers), state, env)} })

eof_parser(state) ==
    IF state.remaining = <<>> THEN Ok(state) ELSE ParseFail(state, "the end")

\* coerce that runs parser on the caller's State
coerce_shares_value(coercion, parser, state, env) ==
    LET r == call(parser, state, env)
    IN  IF r.tag # "ok" THEN r
        ELSE LET c == coercion_call(coercion, r.state.value)
             IN  IF c.tag # "ok" THEN c
                 ELSE Ok(State(state.value \o <<c.v>>, r.state.remaining))

coerce_new_parser(coercion, parser, state, env) ==
    Only({ IF r.tag # "ok" THEN r
           ELSE Only({ IF c.tag # "ok" THEN c
                       ELSE Ok(State(state.value \o <<c.v>>, r.state.remaining)) :
                       c \in {coercion_call(coercion, r.state.value)} }) :
           r \in {call(parser, State(<<>>, state.remaining), env)} })

\* discard that keeps what parser accumulated
discard_keeps_value(parser, state, env) == call(parser, state, env)

discard_new_parser(parser, state, env) ==
    Only({ IF r.tag # "ok" THEN r ELSE Ok(State(state.value, r.state.remaining)) :
           r \in {call(parser, state, env)} })

\* a FunctionWrapper that reports an unassigned impl as a parse failure
FunctionWrapper_fails_softly(env, state) ==
    IF env = None THEN ParseFail(state, "implementation") ELSE call(env, state, env)

\* FunctionWrapper.__call__: self.impl(state); None is not callable
FunctionWrapper_call(env, state) ==
    IF env = None THEN Raise("TypeError") ELSE call(env, state, env)

call(parser, state, env) ==
    CASE parser.op = "identity" -> Ok(state)
      [] parser.op = "char_satisfies" -> char_satisfies_parser(parser.pred, parser.name, state)
      [] parser.op = "pure" -> pure_parser(parser.x, state)
      [] parser.op = "compose" -> compose_call(parser.functions, state, env)
      [] parser.op = "many" -> many_new_parser(parser.parser, state, env, MaxIter)
      [] parser.op = "choose" -> choose_new_parser(parser.parsers, state, env)
      [] parser.op = "eof" -> eof_parser(state)
      [] parser.op = "coerce" -> coerce_new_parser(parser.coercion, parser.parser, state, env)
      [] parser.op = "discard" -> discard_new_parser(parser.parser, state, env)
      [] parser.op = "FunctionWrapper" -> FunctionWrapper_call(env, state)

(***************************************************************************)
(* The inputs, the parsers and the implementations of the model.           *)
(***************************************************************************)
Alphabet == {"a", "1", ",", " "}

Examples == {
    <<"1", ",", "2", ",">>,
    <<"1", ",", "2", ",", "3">>,
    <<"-", "4", "2">>,
    <<"+", "7", "a">>,
    <<"a", "1", "a", "1", "a">>,
    <<"1", "2", " ", ",", "-", "3">>,
    <<" ", "a", "1", "a", " ">>,
    <<"\"", "a", "b", "\"">>,
    <<"{", "\"", "a", "\"", ":", "1", "}">>,
    <<"{", "}">> }

Inputs == UNION {[1..n -> Alphabet] : n \in 0..MaxLen} \cup Examples

Values == << <<>>, <<PyStr(<<"x">>)>> >>

Grammars == <<
    char("a"), any_char, one_of(<<"a", "1">>), none_of(<<",", " ">>),
    letter, digit, whitespace,
    pure(PyStr(<<"x">>)), identity, eof,
    sequence(<<>>), sequence(<<letter, digit>>), sequence(<<digit, digit, eof>>),
    many(digit), many(sequence(<<letter, digit>>)), many(text(digit)),
    many1(digit), many1(sequence(<<letter, digit>>)),
    choose(<<digit, letter>>), choose(<<text(many1(digit)), digit>>),
    choose(<<sequence(<<digit, letter>>), sequence(<<digit, digit>>), letter>>),
    maybe(digit), maybe(sequence(<<digit, letter>>)),
    word, integer, text(many(any_char)),
    as_tuple(sequence(<<digit, letter>>)), as_list(many(digit)), as_int(many(any_char)),
    discard(digit), discard(sequence(<<letter, digit>>)),
    token(digit), between(char("a"), char("a"), digit),
    sep_by1(char(","), digit), sep_by(char(","), digit),
    sep_by1(token(char(",")), integer), sep_by(token(char(",")), integer),
    many(pure(PyStr(<<"x">>))), many(identity), many(maybe(digit)),
    dict_, maybe(dict_), many(dict_), choose(<<dict_, digit>>), choose(<<digit, dict_>>),
    sequence(<<digit, dict_>>), string, value >>

Impls == << digit, sequence(<<char("a"), maybe(dict_)>>), dict_impl >>

(***************************************************************************)
(* The state machine: a grammar is built, the cell is assigned or not,     *)
(* and the grammar is applied to State(value, input).                      *)
(***************************************************************************)
Init ==
    /\ impl = None
    /\ \E i \in 1..Len(Grammars) : grammar = Grammars[i]
    /\ input \in Inputs
    /\ \E v \in 1..Len(Values) : start = State(Values[v], input)
    /\ outcome = NoOutcome
    /\ pc = "built"
    /\ loop_state = start

\* dict_.impl = ...
Assign ==
    /\ pc = "built"
    /\ impl = None
    /\ \E i \in 1..Len(Impls) : impl' = Impls[i]
    /\ UNCHANGED <<grammar, input, start, outcome, pc, loop_state>>

\* grammar(start), as one step
Call ==
    /\ pc = "built"
    /\ outcome' = call(grammar, start, impl)
    /\ pc' = IF outcome'.tag = "loop" THEN "hung" ELSE "done"
    /\ UNCHANGED <<impl, grammar, input, start, loop_state>>

\* many(parser)(start): entry of new_parser
ManyEnter ==
    /\ pc = "built"
    /\ grammar.op = "many"
    /\ loop_state' = start
    /\ pc' = "loop"
    /\ UNCHANGED <<impl, grammar, input, start, outcome>>

\* a while loop that goes on after a ParseFail instead of returning
ManyIter_ignores_failure ==
    /\ pc = "loop"
    /\ \E r \in {call(grammar.parser, loop_state, impl)} :
           /\ loop_state' = IF r.tag = "ok" THEN r.state ELSE loop_state
           /\ Len(loop_state'.value) <= MaxValue
    /\ UNCHANGED <<impl, grammar, input, start, outcome, pc>>

\* one pass of the while loop of new_parser: state = parser(state), or
\* return state on ParseFail
ManyIter ==
    /\ pc = "loop"
    /\ \E r \in {call(grammar.parser, loop_state, impl)} :
           IF r.tag = "ok"
           THEN /\ Len(r.state.value) <= MaxValue
                /\ loop_state' = r.state
                /\ UNCHANGED <<outcome, pc>>
           ELSE /\ outcome' = IF r.tag = "fail" THEN Ok(loop_state) ELSE r
                /\ pc' = IF r.tag = "loop" THEN "hung" ELSE "done"
                /\ UNCHANGED loop_state
    /\ UNCHANGED <<impl, grammar, input, start>>

Next == Assign \/ Call \/ ManyEnter \/ ManyIter

Spec == Init /\ [][Next]_vars

\* the interpreter keeps executing a loop it has entered
LoopInit == Init /\ grammar.op = "many"
LoopSpec == LoopInit /\ [][Next]_vars /\ WF_vars(ManyIter)

(***************************************************************************)
(* The applications made while parser(state) runs: for parser and every    *)
(* sub-parser that is applied, the pair of the remaining input it was      *)
(* handed and the remaining input of the State it returned (the remaining  *)
(* it was handed, when it returned none).                                  *)
(***************************************************************************)
RECURSIVE steps(_, _, _)
RECURSIVE compose_steps(_, _, _)
RECURSIVE many_steps(_, _, _, _)
RECURSIVE choose_steps(_, _, _)

compose_steps(functions, x, env) ==
    IF functions = <<>> THEN {}
    ELSE LET inner == compose_call(Tail(functions), x, env)
         IN  compose_steps(Tail(functions), x, env) \cup
             (IF inner.tag = "ok" THEN steps(Head(functions), inner.state, env) ELSE {})

many_steps(parser, state, env, fuel) ==
    LET r == call(parser, state, env)
    IN  steps(parser, state, env) \cup
        (IF r.tag = "ok" /\ fuel > 0 THEN many_steps(parser, r.state, env, fuel - 1) ELSE {})

choose_steps(parsers, state, env) ==
    IF parsers = <<>> THEN {}
    ELSE steps(Head(parsers), state, env) \cup
         (IF Len(parsers) > 1 /\ call(Head(parsers), state, env).tag = "fail"
          THEN choose_steps(Tail(parsers), state, env) ELSE {})

steps(parser, state, env) ==
    LET r == call(parser, state, env)
        own == {<<state.remaining, IF r.tag = "ok" THEN r.state.remaining ELSE state.remaining>>}
    IN  own \cup
        CASE parser.op = "compose" -> compose_steps(parser.functions, state, env)
          [] parser.op = "many" -> many_steps(parser.parser, state, env, MaxIter)
          [] parser.op = "choose" -> choose_steps(parser.parsers, state, env)
          [] parser.op = "coerce" -> steps(parser.parser, State(<<>>, state.remaining), env)
          [] parser.op = "discard" -> steps(parser.parser, state, env)
          [] parser.op = "FunctionWrapper" -> IF env = None THEN {} ELSE steps(env, state, env)
          [] OTHER -> {}

\* the State reached by applying parser k times in a row, or the first
\* outcome that is not a State
RECURSIVE Repeat(_, _, _, _)
Repeat(parser, state, env, k) ==
    IF k = 0 THEN Ok(state)
    ELSE LET r == Repeat(parser, state, env, k - 1)
         IN  IF r.tag = "ok" THEN call(parser, r.state, env) ELSE r

\* the States on which the properties of a sub-parser are stated: every
\* suffix of the input, with the accumulated values of the model
Suffixes(s) == {Drop(s, n) : n \in 0..Len(s)}

\* every successful application of parser consumes at least one character
Consumes(parser, env) ==
    \A r \in Suffixes(input) :
        LET o == call(parser, State(<<>>, r), env)
        IN  o.tag \in {"ok", "fail"} /\ (o.tag = "ok" => Len(o.state.remaining) < Len(r))

\* ParseFail is the only way parser fails: it returns a State or raises ParseFail
OnlyParseFail(parser, env) ==
    \A r \in Suffixes(input) : \A v \in 1..Len(Values) :
        call(parser, State(Values[v], r), env).tag \in {"ok", "fail"}

\* the application was made: it ended ("done") or it never ends ("hung")
Applied == pc \in {"done", "hung"}

(***************************************************************************)
(* C1: a single-character primitive built by char_satisfies(pred, name),   *)
(* applied to State s, returns State(s.value + [c], s.remaining[1:]) when  *)
(* s.remaining is non-empty and pred holds of its first character c, and   *)
(* otherwise, also on an empty s.remaining, raises ParseFail(s, name).     *)
(***************************************************************************)
C1_CharSatisfies ==
    (Applied /\ grammar.op = "char_satisfies") =>
        /\ start.remaining = <<>> => outcome = ParseFail(start, grammar.name)
        /\ start.remaining # <<>> =>
              LET c == Head(start.remaining)
              IN  IF c \in grammar.pred
                  THEN /\ outcome.tag = "ok"
                       /\ outcome.state.value = Append(start.value, PyStr(<<c>>))
                       /\ outcome.state.remaining = Tail(start.remaining)
                  ELSE /\ outcome.tag = "fail"
                       /\ outcome.state = start
                       /\ outcome.expected = grammar.name
        /\ grammar = digit =>
              (outcome.tag = "ok" <=> (start.remaining # <<>> /\ Head(start.remaining) \in Digits))
        /\ (grammar = char("a") /\ outcome.tag = "fail") =>
              ParseFail_str(outcome) = "Expected character \"a\""

C1_Witness ==
    /\ pc = "done"
    /\ grammar = one_of(<<"a", "1">>)
    /\ start.value # <<>>
    /\ Len(start.remaining) >= 2
    /\ outcome.tag = "ok"

(***************************************************************************)
(* C2: every State threaded through an application to State([], input),   *)
(* and every State returned, has a remaining that is a suffix of input     *)
(* (consumed prefix + remaining = input), and no application that returns  *)
(* a State returns one with a longer remaining than it was handed.         *)
(***************************************************************************)
C2_RemainingIsSuffix ==
    /\ IsSuffix(loop_state.remaining, input)
    /\ Applied =>
          /\ outcome.tag = "ok" =>
                /\ IsSuffix(outcome.state.remaining, input)
                /\ Take(input, Len(input) - Len(outcome.state.remaining))
                      \o outcome.state.remaining = input
          /\ \A st \in steps(grammar, start, impl) :
                /\ IsSuffix(st[1], input)
                /\ IsSuffix(st[2], st[1])
                /\ Len(st[2]) <= Len(st[1])

C2_Witness ==
    /\ pc = "done"
    /\ grammar = sep_by(char(","), digit)
    /\ outcome.tag = "ok"
    /\ Len(outcome.state.remaining) = 1
    /\ Len(input) = 4
    /\ Cardinality(steps(grammar, start, impl)) >= 5

(***************************************************************************)
(* C3: choose(parsers) applies the alternatives in list order, each to     *)
(* the State choose was applied to, and returns what the first one that    *)
(* succeeds returns; when every alternative raises ParseFail, the          *)
(* ParseFail of the last alternative is the one raised.                    *)
(***************************************************************************)
C3_ChooseFirstSuccess ==
    (Applied /\ grammar.op = "choose") =>
        LET alts == grammar.parsers
            res(i) == call(alts[i], start, impl)
        IN  /\ \A i \in 1..Len(alts) :
                  (res(i).tag = "ok" /\ \A j \in 1..(i - 1) : res(j).tag = "fail")
                      => outcome = res(i)
            /\ (\A i \in 1..Len(alts) : res(i).tag = "fail")
                  => outcome = res(Len(alts))

C3_Witness ==
    /\ pc = "done"
    /\ grammar = choose(<<text(many1(digit)), digit>>)
    /\ call(grammar.parsers[1], start, impl).tag = "ok"
    /\ call(grammar.parsers[2], start, impl).tag = "ok"
    /\ call(grammar.parsers[1], start, impl) # call(grammar.parsers[2], start, impl)
    /\ outcome = call(grammar.parsers[1], start, impl)

\* p succeeds exactly n times in a row from state, then raises ParseFail
Matches(parser, state, env, n) ==
    /\ Repeat(parser, state, env, n).tag = "ok"
    /\ Repeat(parser, state, env, n + 1).tag = "fail"

\* the number of leading characters of r that are in set
RECURSIVE LeadingRun(_, _)
LeadingRun(r, set) == IF r # <<>> /\ Head(r) \in set THEN 1 + LeadingRun(Tail(r), set) ELSE 0

IsMany1 ==
    /\ grammar.op = "compose"
    /\ Len(grammar.functions) = 2
    /\ grammar = many1(grammar.functions[2])

(***************************************************************************)
(* C4: for a parser p that consumes on every success, many(p) applied to   *)
(* a State on which p matches exactly n times in a row (n >= 0) returns    *)
(* the State after those n applications: n matches consumed, n result      *)
(* fragments appended in order; many1(p) does the same for n >= 1 and      *)
(* raises p's ParseFail for n = 0.                                         *)
(***************************************************************************)
C4_ManyRepetition ==
    Applied =>
        /\ (grammar.op = "many" /\ Consumes(grammar.parser, impl)) =>
              /\ outcome.tag = "ok"
              /\ \A n \in 0..Len(start.remaining) :
                    Matches(grammar.parser, start, impl, n) =>
                        outcome = Repeat(grammar.parser, start, impl, n)
        /\ (IsMany1 /\ Consumes(grammar.functions[2], impl)) =>
              \A n \in 0..Len(start.remaining) :
                  Matches(grammar.functions[2], start, impl, n) =>
                      IF n >= 1
                      THEN outcome = Repeat(grammar.functions[2], start, impl, n)
                      ELSE outcome = call(grammar.functions[2], start, impl)
        /\ grammar \in {many(digit), many1(digit)} =>
              LET n == LeadingRun(start.remaining, Digits)
              IN  IF n = 0 /\ grammar = many1(digit)
                  THEN outcome = ParseFail(start, "digit")
                  ELSE outcome = Ok(State(
                           start.value \o [i \in 1..n |-> PyStr(<<start.remaining[i]>>)],
                           Drop(start.remaining, n)))

C4_Witness ==
    /\ pc = "done"
    /\ grammar = many(sequence(<<letter, digit>>))
    /\ Matches(grammar.parser, start, impl, 2)
    /\ start.value # <<>>
    /\ Len(outcome.state.value) = 5
    /\ Len(outcome.state.remaining) = 1

CombinatorBuilt == grammar.op \in {"compose", "coerce", "discard"}

(***************************************************************************)
(* C5, as claimed: when a parser built by sequence, coerce or discard      *)
(* (many1, between, sep_by1, token, text, as_int, as_tuple, as_list        *)
(* among them), applied to State s, raises ParseFail, the ParseFail        *)
(* carries exactly s.                                                      *)
(***************************************************************************)
C5_FailureCarriesOriginalState ==
    (Applied /\ CombinatorBuilt /\ outcome.tag = "fail") => outcome.state = start

\* the State after the first k parsers of a sequence, or the first outcome
\* that is not a State
RECURSIVE Thread(_, _, _, _)
Thread(parsers, state, env, k) ==
    IF k = 0 THEN Ok(state)
    ELSE LET r == Thread(parsers, state, env, k - 1)
         IN  IF r.tag = "ok" THEN call(parsers[k], r.state, env) ELSE r

\* the parsers inside parser that raise ParseFail themselves
RECURSIVE Leaves(_)
RECURSIVE LeavesOfAll(_)
LeavesOfAll(parsers) ==
    IF parsers = <<>> THEN <<>> ELSE Leaves(Head(parsers)) \o LeavesOfAll(Tail(parsers))
Leaves(parser) ==
    CASE parser.op \in {"char_satisfies", "eof"} -> <<parser>>
      [] parser.op = "compose" -> LeavesOfAll(parser.functions)
      [] parser.op = "choose" -> LeavesOfAll(parser.parsers)
      [] parser.op \in {"many", "coerce", "discard"} -> Leaves(parser.parser)
      [] OTHER -> <<>>

(***************************************************************************)
(* C5, amended: the ParseFail such a parser raises is the ParseFail of     *)
(* its first failing sub-parser, unchanged.  It carries the State the      *)
(* failing primitive was applied to, whose remaining is a suffix of        *)
(* s.remaining: for a sequence the State threaded out of the sub-parsers   *)
(* before the failing one, for coerce a State of p's isolated run.         *)
(***************************************************************************)
C5_FailureCarriesFailingState ==
    (Applied /\ CombinatorBuilt /\ outcome.tag = "fail") =>
        /\ IsSuffix(outcome.state.remaining, start.remaining)
        /\ LET leaves == Leaves(grammar) \o (IF impl = None THEN <<>> ELSE Leaves(impl))
           IN  \E i \in 1..Len(leaves) : call(leaves[i], outcome.state, impl) = outcome
        /\ grammar.op = "compose" =>
              LET parsers == Reverse(grammar.functions)
              IN  \E k \in 1..Len(parsers) :
                      /\ Thread(parsers, start, impl, k - 1).tag = "ok"
                      /\ outcome = call(parsers[k], Thread(parsers, start, impl, k - 1).state, impl)
        /\ grammar.op = "coerce" =>
              outcome = call(grammar.parser, State(<<>>, start.remaining), impl)
        /\ grammar.op = "discard" => outcome = call(grammar.parser, start, impl)

C5_Witness ==
    /\ pc = "done"
    /\ grammar = sequence(<<letter, digit>>)
    /\ outcome.tag = "fail"
    /\ outcome.expected = "digit"
    /\ outcome.state.remaining = Tail(start.remaining)
    /\ outcome.state.value = Append(start.value, PyStr(<<"a">>))

IsMaybe ==
    /\ grammar.op = "choose"
    /\ Len(grammar.parsers) = 2
    /\ grammar.parsers[2] = identity

(***************************************************************************)
(* C6, as claimed: for every State s and every parser p whose only         *)
(* failure mode is ParseFail, maybe(p) and many(p) both return a State:    *)
(* maybe(p) exactly s when p fails on s, many(p) the State produced by     *)
(* the last application of p that succeeded.                               *)
(***************************************************************************)
C6_AlwaysReturnsState ==
    Applied =>
        /\ (IsMaybe /\ OnlyParseFail(grammar.parsers[1], impl)) =>
              /\ pc = "done" /\ outcome.tag = "ok"
              /\ call(grammar.parsers[1], start, impl).tag = "fail" => outcome = Ok(start)
        /\ (grammar.op = "many" /\ OnlyParseFail(grammar.parser, impl)) =>
              /\ pc = "done" /\ outcome.tag = "ok"
              /\ \E n \in 0..Len(start.remaining) :
                    /\ Repeat(grammar.parser, start, impl, n).tag = "ok"
                    /\ Repeat(grammar.parser, start, impl, n + 1).tag = "fail"
                    /\ outcome = Repeat(grammar.parser, start, impl, n)

\* from state, p succeeds n times and then once more without consuming
SucceedsWithoutConsuming(parser, state, env, n) ==
    /\ Repeat(parser, state, env, n + 1).tag = "ok"
    /\ Repeat(parser, state, env, n + 1).state.remaining
          = Repeat(parser, state, env, n).state.remaining

(***************************************************************************)
(* C6, amended: for such p, neither maybe(p) nor many(p) raises.           *)
(* maybe(p) returns a State: exactly s when p fails on s.  many(p)         *)
(* returns a State whenever it ends, which it does when p consumes on      *)
(* every success; the State is the one produced by the last application    *)
(* of p that succeeded, so an application that fails part-way contributes  *)
(* nothing.  When p succeeds without consuming, many(p) does not end.      *)
(***************************************************************************)
C6_FailureNeverEscapes ==
    Applied =>
        /\ (IsMaybe /\ OnlyParseFail(grammar.parsers[1], impl)) =>
              /\ outcome.tag = "ok"
              /\ call(grammar.parsers[1], start, impl).tag = "fail" => outcome = Ok(start)
        /\ (grammar.op = "many" /\ OnlyParseFail(grammar.parser, impl)) =>
              /\ outcome.tag \in {"ok", "loop"}
              /\ Consumes(grammar.parser, impl) => outcome.tag = "ok"
              /\ outcome.tag = "ok" =>
                    \E n \in 0..Len(start.remaining) :
                        /\ Matches(grammar.parser, start, impl, n)
                        /\ outcome = Repeat(grammar.parser, start, impl, n)
              /\ (pc = "hung" <=> outcome.tag = "loop")
              /\ outcome.tag = "loop" =>
                    \E n \in 0..Len(start.remaining) :
                        SucceedsWithoutConsuming(grammar.parser, start, impl, n)
        /\ (grammar = sep_by(char(","), digit) /\ input = <<"1", ",", "2", ",">>) =>
              outcome = Ok(State(start.value \o <<PyStr(<<"1">>), PyStr(<<"2">>)>>, <<",">>))

C6_Witness ==
    /\ pc = "done"
    /\ grammar = many(sequence(<<letter, digit>>))
    /\ input = <<"a", "1", "a">>
    /\ outcome = Ok(State(start.value \o <<PyStr(<<"a">>), PyStr(<<"1">>)>>, <<"a">>))

\* p, applied to the loop's current State, succeeds and consumes nothing
Stuck ==
    /\ pc = "loop"
    /\ call(grammar.parser, loop_state, impl).tag = "ok"
    /\ call(grammar.parser, loop_state, impl).state.remaining = loop_state.remaining

(***************************************************************************)
(* C7: many(p) returns exactly when an application of p in its loop        *)
(* raises ParseFail.  It ends on every input when every success of p       *)
(* consumes at least one character, and it never returns once p succeeds   *)
(* without consuming at the State reached.                                 *)
(***************************************************************************)
C7_ManyTermination ==
    /\ [](/\ (pc = "done" /\ grammar.op = "many" /\ outcome.tag = "ok") =>
                /\ call(grammar.parser, outcome.state, impl).tag = "fail"
                /\ outcome = call(grammar, start, impl)
          /\ Stuck => call(grammar, start, impl) = Diverge
          /\ (pc = "loop" /\ call(grammar, start, impl) = Diverge) =>
                \E n \in 0..MaxIter :
                    SucceedsWithoutConsuming(grammar.parser, loop_state, impl, n))
    /\ [][/\ (pc = "loop" /\ pc' = "done") =>
                /\ call(grammar.parser, loop_state, impl).tag \in {"fail", "error"}
                /\ call(grammar.parser, loop_state, impl).tag = "fail" =>
                      outcome' = Ok(loop_state)
          /\ (pc = "loop" /\ call(grammar.parser, loop_state, impl).tag = "ok") =>
                pc' = "loop"
          /\ (pc = "loop" /\ call(grammar.parser, loop_state, impl).tag = "fail"
                /\ vars' # vars) => pc' = "done"
          /\ Stuck => Stuck']_vars
    /\ (pc = "loop" /\ Consumes(grammar.parser, impl)) ~> (pc = "done")

C7_Witness ==
    /\ pc = "done"
    /\ grammar = many(sequence(<<letter, digit>>))
    /\ loop_state # start
    /\ Len(loop_state.remaining) + 4 = Len(start.remaining)
    /\ loop_state.remaining # <<>>
    /\ outcome = Ok(loop_state)

\* parser with the assigned parser q in the place of every wrapper
RECURSIVE Subst(_, _)
RECURSIVE SubstAll(_, _)
SubstAll(parsers, q) ==
    IF parsers = <<>> THEN <<>> ELSE <<Subst(Head(parsers), q)>> \o SubstAll(Tail(parsers), q)
Subst(parser, q) ==
    CASE parser.op = "FunctionWrapper" -> q
      [] parser.op = "compose" -> compose(SubstAll(parser.functions, q))
      [] parser.op = "choose" -> choose(SubstAll(parser.parsers, q))
      [] parser.op = "many" -> many(Subst(parser.parser, q))
      [] parser.op = "coerce" -> coerce(parser.coercion, Subst(parser.parser, q))
      [] parser.op = "discard" -> discard(Subst(parser.parser, q))
      [] OTHER -> parser

\* the run of grammar on start applies the wrapper
ReachesWrapper ==
    \/ grammar \in {dict_, maybe(dict_), many(dict_), choose(<<dict_, digit>>)}
    \/ grammar = choose(<<digit, dict_>>) /\ call(digit, start, impl).tag = "fail"
    \/ grammar = sequence(<<digit, dict_>>) /\ call(digit, start, impl).tag = "ok"
    \/ /\ grammar = value
       /\ call(string, start, impl).tag = "fail"
       /\ call(integer, start, impl).tag = "fail"

(***************************************************************************)
(* C8: applying the FunctionWrapper while its impl is None raises an       *)
(* error that is no ParseFail, also inside maybe, many and a non-last      *)
(* alternative of choose, and no State is returned; once impl is assigned  *)
(* a parser that captured the wrapper behaves as if it had captured the    *)
(* assigned parser.                                                        *)
(***************************************************************************)
C8_UnassignedWrapperRaises ==
    Applied =>
        /\ (impl = None /\ ReachesWrapper) =>
              /\ pc = "done"
              /\ outcome = Raise("TypeError")
        /\ impl # None => outcome = call(Subst(grammar, impl), start, impl)

C8_Witness ==
    /\ pc = "done"
    /\ impl = None
    /\ grammar = many(dict_)
    /\ outcome.tag = "error"

(***************************************************************************)
(* C9: coerce(transform, p) applied to s runs p on State([], s.remaining)  *)
(* and on success returns State(s.value + [transform(v)], r) for the value *)
(* v and the remaining r that p returned: s.value stays as a prefix,       *)
(* one element is appended, remaining is what p left.                      *)
(***************************************************************************)
C9_CoerceIsolatesValue ==
    (Applied /\ grammar.op = "coerce" /\ outcome.tag = "ok") =>
        LET r == call(grammar.parser, State(<<>>, start.remaining), impl)
        IN  /\ r.tag = "ok"
            /\ Len(outcome.state.value) = Len(start.value) + 1
            /\ Take(outcome.state.value, Len(start.value)) = start.value
            /\ outcome.state.value[Len(start.value) + 1]
                  = coercion_call(grammar.coercion, r.state.value).v
            /\ outcome.state.remaining = r.state.remaining
            /\ grammar = word =>
                  LET n == LeadingRun(start.remaining, Letters)
                  IN  /\ n >= 1
                      /\ outcome.state.value
                            = Append(start.value, PyStr(Take(start.remaining, n)))
                      /\ outcome.state.remaining = Drop(start.remaining, n)

C9_Witness ==
    /\ pc = "done"
    /\ grammar = word
    /\ start = State(<<PyStr(<<"x">>)>>, <<"a", "a", "1">>)
    /\ outcome = Ok(State(<<PyStr(<<"x">>), PyStr(<<"a", "a">>)>>, <<"1">>))

\* the separators and the occurrence parsers of the separated lists
SepCases == << <<char(","), digit>>, <<token(char(",")), integer>> >>

\* the State after p (separator p)* with k occurrences of p, the output of
\* separator dropped, or the first outcome that is not a State
RECURSIVE Separated(_, _, _, _, _)
Separated(separator, parser, state, env, k) ==
    IF k = 1 THEN call(parser, state, env)
    ELSE LET a == Separated(separator, parser, state, env, k - 1)
             b == call(separator, a.state, env)
         IN  IF a.tag # "ok" THEN a
             ELSE IF b.tag # "ok" THEN b
             ELSE call(parser, State(a.state.value, b.state.remaining), env)

(***************************************************************************)
(* C10: sep_by1(separator, p) and sep_by(separator, p), on an input of     *)
(* the form p (separator p)* with k >= 1 occurrences of p, consume the     *)
(* whole input and append the k results of p in input order and nothing    *)
(* of separator; on an input with no occurrence sep_by returns the State   *)
(* unchanged and sep_by1 raises ParseFail.                                 *)
(***************************************************************************)
\* r is digit ("," digit)*
IsDigitList(r) ==
    /\ Len(r) % 2 = 1
    /\ \A i \in 1..Len(r) : IF i % 2 = 1 THEN r[i] \in Digits ELSE r[i] = ","

C10_SepByDiscardsSeparators ==
    /\ \A c \in 1..Len(SepCases) :
          LET separator == SepCases[c][1]
              parser == SepCases[c][2]
              none == call(parser, start, impl).tag = "fail"
          IN  /\ (Applied /\ grammar = sep_by1(separator, parser)) =>
                    /\ \A k \in 1..(Len(start.remaining) + 1) :
                          LET form == Separated(separator, parser, start, impl, k)
                          IN  (form.tag = "ok" /\ form.state.remaining = <<>>)
                                  => outcome = form
                    /\ none => outcome = call(parser, start, impl)
              /\ (Applied /\ grammar = sep_by(separator, parser)) =>
                    /\ \A k \in 1..(Len(start.remaining) + 1) :
                          LET form == Separated(separator, parser, start, impl, k)
                          IN  (form.tag = "ok" /\ form.state.remaining = <<>>)
                                  => outcome = form
                    /\ none => outcome = Ok(start)
    /\ (Applied /\ grammar \in {sep_by1(char(","), digit), sep_by(char(","), digit)}) =>
        LET r == start.remaining
        IN  /\ IsDigitList(r) =>
                  outcome = Ok(State(
                      start.value \o [i \in 1..((Len(r) + 1) \div 2) |-> PyStr(<<r[2 * i - 1]>>)],
                      <<>>))
            /\ (r = <<>> \/ Head(r) \notin Digits) =>
                  IF grammar = sep_by(char(","), digit)
                  THEN outcome = Ok(start)
                  ELSE outcome = ParseFail(start, "digit")

C10_Witness ==
    /\ pc = "done"
    /\ grammar = sep_by(char(","), digit)
    /\ input = <<"1", ",", "2", ",", "3">>
    /\ outcome = Ok(State(start.value \o <<PyStr(<<"1">>), PyStr(<<"2">>), PyStr(<<"3">>)>>, <<>>))
====
